---- MODULE Spec2Model ----
(***************************************************************************)
(* AA tree ordered set (src/tree.h, template class Set<ValueType>).        *)
(*                                                                         *)
(* The heap is a partial function: the node fields left, right, parent     *)
(* and level are defined exactly on the nodes that are currently           *)
(* allocated (the sentinels included), value exactly on the allocated real *)
(* nodes (a sentinel's value is default-constructed and never assigned).   *)
(* `new` returns the smallest free address.  Two Set objects, "a" and "b", *)
(* live in the same heap; "b" exists only once it has been copy-built.     *)
(* level and node_count are size_t in the source; they are decremented     *)
(* only behind a test that makes them positive (lines 198, 400, 402) and   *)
(* stay far below 2^64, so they are plain naturals here.                   *)
(* ValueType is int with its operator<.                                    *)
(*                                                                         *)
(* A read through a pointer to a freed node has no value.  Every           *)
(* assignment to a field of a node goes through `store`, and every delete  *)
(* through `delete`; they record in `faults` a store to a freed node, a    *)
(* second delete, a store that changes a field of a sentinel and a store   *)
(* of a level below 1 to a real node, so that the states inside a call are *)
(* observed and not only the state the call returns.  The statements of a  *)
(* function are composed in their order, each applied to the memory the    *)
(* one before it left.                                                     *)
(***************************************************************************)
EXTENDS Integers, Sequences, FiniteSets, TLC

\* ---------------------------------------------------------------- bounds
MaxVal == 5
MaxValIter == 4
MaxValCopy == 2

Values == 1..MaxVal
IterValues == 1..MaxValIter
CopyValues == 1..MaxValCopy
SetIds == {"a", "b"}
NULL == -1

\* left, right, parent, level, value : the fields of the allocated nodes
\* node_count, bottom, root           : the members of each Set object
\* constructed                        : the Set objects that exist
\* it                                 : the iterator the caller holds
\* ref, op                            : history: the reference mathematical
\*                                      set of each object, the last call
\* faults                             : history: the kinds of store and of
\*                                      delete met so far that the program
\*                                      must never perform (see store)
VARIABLES left, right, parent, level, value,
          node_count, bottom, root,
          constructed, it, ref, op, faults

vars == <<left, right, parent, level, value, node_count, bottom, root,
          constructed, it, ref, op, faults>>

\* What the member `to_erase` (line 365) and the function-local static
\* `last` (line 368) hold when a call starts: whatever an earlier call left
\* there, possibly the address of a freed node.  erase assigns to_erase
\* (line 194) and internal_erase assigns last (line 374) before reading
\* them, so the model carries both inside a call only; every call starts
\* from Stale, a value that cannot be compared with a node address, so
\* that any read of a left-over value stops the evaluation with an error.
Stale == "stale"

\* The memory the member functions work on: the node fields, the members of
\* each Set object and the function-local static `last` of internal_erase.
\* trace is history kept while a call runs: what the call met at the points
\* of internal_erase that the properties look at (see note).
Mem ==
  [left |-> left, right |-> right, parent |-> parent, level |-> level,
   value |-> value, node_count |-> node_count, bottom |-> bottom,
   root |-> root, to_erase |-> [s \in SetIds |-> Stale], last |-> Stale,
   faults |-> faults, trace |-> <<>>]

Commit(m) ==
  /\ left' = m.left
  /\ right' = m.right
  /\ parent' = m.parent
  /\ level' = m.level
  /\ value' = m.value
  /\ node_count' = m.node_count
  /\ bottom' = m.bottom
  /\ root' = m.root
  /\ faults' = m.faults

\* ------------------------------------------------------------ allocation
\* `new`: the smallest address that is not allocated.
NewId(m) ==
  CHOOSE n \in 0..Cardinality(DOMAIN m.left) :
    /\ n \notin DOMAIN m.left
    /\ \A k \in 0..(n - 1) : k \in DOMAIN m.left

Without(f, n) == [x \in DOMAIN f \ {n} |-> f[x]]

fault(m, kind) == [m EXCEPT !.faults = @ \cup {kind}]

\* The call notes what it meets at a point the properties look at.
note(m, entry) == [m EXCEPT !.trace = Append(@, entry)]

\* `delete node`: the storage of the node is gone.  A delete of storage
\* that is not allocated (freed before, or never allocated) is recorded.
delete(m, n) ==
  IF n \notin DOMAIN m.left THEN fault(m, "delete")
  ELSE [m EXCEPT !.left = Without(@, n), !.right = Without(@, n),
                 !.parent = Without(@, n), !.level = Without(@, n),
                 !.value = Without(@, n)]

Sentinels(m) == {m.bottom[s] : s \in SetIds} \ {NULL}

\* `node->f = y` for a field f of Node.  The store is carried out on
\* allocated storage and recorded in faults when
\*   "freed"    : node is not allocated (the store has no defined effect);
\*   "sentinel" : node is a sentinel and y is not what the field holds;
\*   "level"    : it gives a real node a level below 1.
store(m, f, node, y) ==
  LET written == [m EXCEPT ![f] = (node :> y) @@ @]
  IN IF node \notin DOMAIN m.left THEN fault(m, "freed")
     ELSE IF node \in Sentinels(m)
     THEN IF f # "value" /\ m[f][node] = y THEN m
          ELSE fault(written, "sentinel")
     ELSE IF f = "level" /\ y < 1 THEN fault(written, "level")
     ELSE written

initialize(m, this) ==
  LET b == NewId(m)
  IN [m EXCEPT !.node_count[this] = 0,
               !.bottom[this] = b,
               !.level = @ @@ (b :> 0),
               !.left = @ @@ (b :> b),
               !.right = @ @@ (b :> b),
               !.parent = @ @@ (b :> b),
               !.root[this] = b]

make_node(m, this, v) ==
  LET result == NewId(m)
  IN [m |-> [m EXCEPT !.value = @ @@ (result :> v),
                      !.level = @ @@ (result :> 1),
                      !.left = @ @@ (result :> m.bottom[this]),
                      !.right = @ @@ (result :> m.bottom[this]),
                      !.parent = @ @@ (result :> m.bottom[this])],
      ret |-> result]

RECURSIVE recursive_delete(_, _, _)
recursive_delete(m, this, node) ==
  IF node = m.bottom[this] THEN m
  ELSE LET m1 == recursive_delete(m, this, m.left[node])
           m2 == recursive_delete(m1, this, m1.right[node])
       IN delete(m2, node)

\* clear leaving the count as it is (line 232 left out).
clear_keeps_count(m, this) ==
  LET m1 == recursive_delete(m, this, m.root[this])
  IN [m1 EXCEPT !.root[this] = m1.bottom[this]]

clear(m, this) ==
  LET m1 == recursive_delete(m, this, m.root[this])
  IN [m1 EXCEPT !.root[this] = m1.bottom[this], !.node_count[this] = 0]

\* -------------------------------------------------------------- rotations
\* Lines 278-282 and 296-300: the child link of parent that pointed to v
\* is pointed to new_v.
relink(m, par, v, new_v) ==
  IF m.left[par] = v THEN store(m, "left", par, new_v)
  ELSE IF m.right[par] = v THEN store(m, "right", par, new_v)
  ELSE m

\* rotate_left leaving the parent of the promoted node as it was (line 277
\* left out).
rotate_left_keeps_parent(m, this, v) ==
  LET par == m.parent[v]
      new_v == m.right[v]
      \* lines 272-274
      adopt(m1) == IF m1.right[v] # m1.bottom[this]
                   THEN store(m1, "parent", m1.right[v], v) ELSE m1
  IN [m |-> relink(store(store(adopt(store(m, "right", v, m.left[new_v])),
                               "left", new_v, v),
                         "parent", v, new_v),
                   par, v, new_v),
      ret |-> new_v]

\* The statements of lines 271-282 in their order, each on the memory the
\* one before it left.
rotate_left(m, this, v) ==
  LET par == m.parent[v]
      new_v == m.right[v]
      \* lines 272-274
      adopt(m1) == IF m1.right[v] # m1.bottom[this]
                   THEN store(m1, "parent", m1.right[v], v) ELSE m1
  IN [m |-> relink(store(store(store(adopt(store(m, "right", v,
                                                 m.left[new_v])),
                                     "left", new_v, v),
                               "parent", v, new_v),
                         "parent", new_v, par),
                   par, v, new_v),
      ret |-> new_v]

\* rotate_right leaving the child link of the parent to the caller (lines
\* 296-300 left out).
rotate_right_no_relink(m, this, v) ==
  LET par == m.parent[v]
      new_v == m.left[v]
      adopt(m1) == IF m1.left[v] # m1.bottom[this]
                   THEN store(m1, "parent", m1.left[v], v) ELSE m1
  IN [m |-> store(store(store(adopt(store(m, "left", v, m.right[new_v])),
                              "right", new_v, v),
                        "parent", v, new_v),
                  "parent", new_v, par),
      ret |-> new_v]

\* rotate_right setting the parent of v's new left child without testing
\* it for the sentinel (the test of line 290 left out).
rotate_right_no_test(m, this, v) ==
  LET par == m.parent[v]
      new_v == m.left[v]
      adopt(m1) == store(m1, "parent", m1.left[v], v)
  IN [m |-> relink(store(store(store(adopt(store(m, "left", v,
                                                 m.right[new_v])),
                                     "right", new_v, v),
                               "parent", v, new_v),
                         "parent", new_v, par),
                   par, v, new_v),
      ret |-> new_v]

\* The statements of lines 289-300 in their order.
rotate_right(m, this, v) ==
  LET par == m.parent[v]
      new_v == m.left[v]
      \* lines 290-292
      adopt(m1) == IF m1.left[v] # m1.bottom[this]
                   THEN store(m1, "parent", m1.left[v], v) ELSE m1
  IN [m |-> relink(store(store(store(adopt(store(m, "left", v,
                                                 m.right[new_v])),
                                     "right", new_v, v),
                               "parent", v, new_v),
                         "parent", new_v, par),
                   par, v, new_v),
      ret |-> new_v]

skew(m, this, node) ==
  IF node = m.bottom[this] THEN [m |-> m, ret |-> node]
  ELSE IF m.level[node] = m.level[m.left[node]] THEN rotate_right(m, this, node)
  ELSE [m |-> m, ret |-> node]

\* split that never rotates (lines 318-321 left out).
split_never(m, this, node) == [m |-> m, ret |-> node]

split(m, this, node) ==
  IF node = m.bottom[this] THEN [m |-> m, ret |-> node]
  ELSE IF /\ m.level[node] = m.level[m.right[node]]
          /\ m.level[node] = m.level[m.right[m.right[node]]]
       THEN rotate_left(store(m, "level", m.right[node],
                              m.level[m.right[node]] + 1), this, node)
  ELSE [m |-> m, ret |-> node]

\* ---------------------------------------------------------------- insert
\* Each LET-local operator below is one statement group of the source,
\* applied to what the statements before it produced.
RECURSIVE internal_insert(_, _, _, _)
internal_insert(m, this, node, v) ==
  IF node = m.bottom[this]
  THEN LET made(r) == [m |-> r.m, ret |-> r.ret, is_inserted |-> TRUE]
       IN made(make_node(m, this, v))
  ELSE
    LET \* lines 349-350
        own_left(m1) == store(m1, "parent", m1.left[node], node)
        link_left(r) == [m |-> own_left(store(r.m, "left", node, r.ret)),
                         is_inserted |-> r.is_inserted]
        \* lines 352-353
        own_right(m1) == store(m1, "parent", m1.right[node], node)
        link_right(r) == [m |-> own_right(store(r.m, "right", node, r.ret)),
                          is_inserted |-> r.is_inserted]
        \* lines 358-362
        inserted(s2) == [m |-> s2.m, ret |-> s2.ret, is_inserted |-> TRUE]
        split_skewed(s1) == inserted(split(s1.m, this, s1.ret))
        rebalance(d) ==
          IF d.is_inserted THEN split_skewed(skew(d.m, this, node))
          ELSE [m |-> d.m, ret |-> node, is_inserted |-> FALSE]
    IN IF v < m.value[node]
       THEN rebalance(link_left(internal_insert(m, this, m.left[node], v)))
       ELSE IF m.value[node] < v
       THEN rebalance(link_right(internal_insert(m, this, m.right[node], v)))
       ELSE rebalance([m |-> m, is_inserted |-> FALSE])

\* Lines 187-190 on the result r of internal_insert, but counting every
\* call (the test of is_inserted, line 188, left out).
insert_counts_always(r, this) ==
  [r.m EXCEPT !.root[this] = r.ret, !.node_count[this] = @ + 1]

\* Lines 187-190 on the result r of internal_insert.
insert_finish(r, this) ==
  IF r.is_inserted
  THEN [r.m EXCEPT !.root[this] = r.ret, !.node_count[this] = @ + 1]
  ELSE [r.m EXCEPT !.root[this] = r.ret]

\* insert counting every call (the test of is_inserted, line 188, left out).
insert_always_counts(m, this, v) ==
  insert_counts_always(internal_insert(m, this, m.root[this], v), this)

insert(m, this, v) ==
  insert_finish(internal_insert(m, this, m.root[this], v), this)

\* ----------------------------------------------------------------- erase
\* A call of lines 406, 407 or 409, whose return value the caller drops: the
\* call was made on memory m0 with the right child of holder as its
\* argument and returned r.  It is noted whether it rotated, whether its
\* argument, if a real node, had holder as its parent when the call was
\* made, and whether the right link of the node that holds the subtree
\* after the call points to what the call returned.
dropped(call, this, m0, holder, r, holder_after) ==
  note(r.m, [at |-> "dropped", call |-> call,
             rotated |-> r.ret # m0.right[holder],
             parent_ok |-> \/ m0.right[holder] = m0.bottom[this]
                           \/ m0.parent[m0.right[holder]] = holder,
             linked |-> r.m.right[holder_after] = r.ret])

\* The five calls of lines 405-409, each working on the memory the call
\* before it left: node = skew(node); skew(node->right);
\* skew(node->right->right); node = split(node); split(node->right).
erase_skew_split(m, this, node) ==
  LET after5(s4, s5) ==
        [m |-> dropped("split(node->right)", this, s4.m, s4.ret, s5, s4.ret),
         ret |-> s4.ret]
      call5(s4) == after5(s4, split(s4.m, this, s4.m.right[s4.ret]))
      call4(m3, n) == call5(split(m3, this, n))
      after3(m2, n, s3) ==
        call4(dropped("skew(node->right->right)", this, m2, m2.right[n], s3,
                      s3.m.right[n]), n)
      call3(m2, n) == after3(m2, n, skew(m2, this, m2.right[m2.right[n]]))
      after2(s1, s2) ==
        call3(dropped("skew(node->right)", this, s1.m, s1.ret, s2, s1.ret),
              s1.ret)
      call2(s1) == after2(s1, skew(s1.m, this, s1.m.right[s1.ret]))
  IN call2(skew(m, this, node))

\* Lines 401-404: the level of node, then of its right child, is lowered.
erase_lower_levels(m, node) ==
  LET lower_right(m1) == IF m1.level[m1.right[node]] > m1.level[node]
                         THEN store(m1, "level", m1.right[node],
                                    m1.level[m1.right[node]] - 1)
                         ELSE m1
  IN lower_right(store(m, "level", node, m.level[node] - 1))

\* erase_rebalance without the decrement of the right child's level
\* (lines 402-404 left out).
erase_rebalance_keep_right(m, this, node) ==
  IF \/ m.level[m.left[node]] + 1 < m.level[node]
     \/ m.level[m.right[node]] + 1 < m.level[node]
  THEN erase_skew_split(store(m, "level", node, m.level[node] - 1),
                        this, node)
  ELSE [m |-> m, ret |-> node]

\* The level decrement and the five-call skew/split sequence of
\* internal_erase (tree.h lines 400-410).
erase_rebalance(m, this, node) ==
  IF \/ m.level[m.left[node]] + 1 < m.level[node]
     \/ m.level[m.right[node]] + 1 < m.level[node]
  THEN erase_skew_split(erase_lower_levels(m, node), this, node)
  ELSE [m |-> m, ret |-> node]

\* erase_unlink with the two branches of line 392 exchanged: last->right is
\* taken when last is to_erase, last->left otherwise.
erase_unlink_exchanged(m, this) ==
  LET te == m.to_erase[this]
      removal == [at |-> "remove", last |-> m.last, to_erase |-> te,
                  node |-> IF m.last = te THEN m.right[m.last]
                           ELSE m.left[m.last],
                  spare |-> IF m.last = te THEN m.left[m.last]
                            ELSE m.right[m.last]]
  IN [m |-> delete(note(m, removal), m.last),
      node |-> IF m.last = te THEN m.right[m.last] ELSE m.left[m.last],
      is_erased |-> TRUE]

\* Lines 392-397: node becomes a child of last, then last is deleted.  The
\* removal is noted: last, to_erase, the child that replaces last (node)
\* and its other child (spare).
erase_unlink(m, this) ==
  LET te == m.to_erase[this]
      removal == [at |-> "remove", last |-> m.last, to_erase |-> te,
                  node |-> IF m.last = te THEN m.left[m.last]
                           ELSE m.right[m.last],
                  spare |-> IF m.last = te THEN m.right[m.last]
                            ELSE m.left[m.last]]
  IN [m |-> delete(note(m, removal), m.last),
      node |-> IF m.last = te THEN m.left[m.last] ELSE m.right[m.last],
      is_erased |-> TRUE]

\* erase_remove without the copy of last's value into to_erase (line 391
\* left out).
erase_remove_no_copy(m, this, node, v, is_erased) ==
  LET te == m.to_erase[this]
  IN IF /\ node = m.last
        /\ te # NULL
        /\ ~(m.value[te] < v)
        /\ ~(v < m.value[te])
     THEN erase_unlink(m, this)
     ELSE [m |-> m, node |-> node, is_erased |-> is_erased]

\* The physical removal of internal_erase (tree.h lines 389-398), reached
\* after the recursive call of the frame of `node` has returned with
\* is_erased as the callee left it.
erase_remove(m, this, node, v, is_erased) ==
  LET te == m.to_erase[this]
  IN IF /\ node = m.last
        /\ te # NULL
        /\ ~(m.value[te] < v)
        /\ ~(v < m.value[te])
     THEN erase_unlink(store(m, "value", te, m.value[m.last]), this)
     ELSE [m |-> m, node |-> node, is_erased |-> is_erased]

RECURSIVE internal_erase(_, _, _, _)
internal_erase(m, this, node, v) ==
  IF node = m.bottom[this] THEN [m |-> m, ret |-> node, is_erased |-> FALSE]
  ELSE
    LET \* lines 377-380 and 383-386: the link to the returned subtree
        link_left(r) ==
          [m |-> IF r.ret # r.m.bottom[this]
                 THEN store(store(r.m, "left", node, r.ret),
                            "parent", r.ret, node)
                 ELSE store(r.m, "left", node, r.ret),
           is_erased |-> r.is_erased]
        link_right(r) ==
          [m |-> IF r.ret # r.m.bottom[this]
                 THEN store(store(r.m, "right", node, r.ret),
                            "parent", r.ret, node)
                 ELSE store(r.m, "right", node, r.ret),
           is_erased |-> r.is_erased]
        \* lines 400-412
        flagged(f, is_erased) ==
          [m |-> f.m, ret |-> f.ret, is_erased |-> is_erased]
        rebalance(e) ==
          flagged(erase_rebalance(e.m, this, e.node), e.is_erased)
        \* lines 389-398
        remove(d) == rebalance(erase_remove(d.m, this, node, v, d.is_erased))
    IN IF v < m.value[node]
       THEN remove(link_left(
              internal_erase([m EXCEPT !.last = node], this, m.left[node], v)))
       ELSE remove(link_right(
              internal_erase([m EXCEPT !.last = node, !.to_erase[this] = node],
                             this, m.right[node], v)))

\* Lines 196-200 on the result r of internal_erase, but counting every call
\* (the test of is_erased, line 198, left out).
erase_counts_always(r, this) ==
  LET count(m2) == [m2 EXCEPT !.node_count[this] = @ - 1]
      reset(m1) == count(store(m1, "parent", m1.root[this], m1.bottom[this]))
  IN reset([r.m EXCEPT !.root[this] = r.ret])

\* Lines 196-200 with the statements of lines 196 and 197 exchanged: the
\* parent of the root is reset before the returned root is stored.
erase_resets_before(r, this) ==
  LET count(m2) == IF r.is_erased THEN [m2 EXCEPT !.node_count[this] = @ - 1]
                   ELSE m2
      assign(m1) == count([m1 EXCEPT !.root[this] = r.ret])
  IN assign(store(r.m, "parent", r.m.root[this], r.m.bottom[this]))

\* Lines 196-200 on the result r of internal_erase.
erase_finish(r, this) ==
  LET count(m2) == IF r.is_erased THEN [m2 EXCEPT !.node_count[this] = @ - 1]
                   ELSE m2
      reset(m1) == count(store(m1, "parent", m1.root[this], m1.bottom[this]))
  IN reset([r.m EXCEPT !.root[this] = r.ret])

\* erase counting every call (the test of is_erased, line 198, left out).
erase_always_counts(m, this, v) ==
  erase_counts_always(
    internal_erase([m EXCEPT !.to_erase[this] = NULL], this, m.root[this], v),
    this)

erase(m, this, v) ==
  erase_finish(
    internal_erase([m EXCEPT !.to_erase[this] = NULL], this, m.root[this], v),
    this)

\* -------------------------------------------------------------- traversal
RECURSIVE go_left(_, _)
go_left(m, node) ==
  IF m.level[m.left[node]] > 0 THEN go_left(m, m.left[node]) ELSE node

RECURSIVE go_right(_, _)
go_right(m, node) ==
  IF m.level[m.right[node]] > 0 THEN go_right(m, m.right[node]) ELSE node

RECURSIVE next_up(_, _)
next_up(m, cur) ==
  IF m.level[cur] > 0
  THEN IF m.left[m.parent[cur]] = cur THEN m.parent[cur]
       ELSE next_up(m, m.parent[cur])
  ELSE cur

RECURSIVE previous_up(_, _)
previous_up(m, cur) ==
  IF m.level[cur] > 0
  THEN IF m.right[m.parent[cur]] = cur THEN m.parent[cur]
       ELSE previous_up(m, m.parent[cur])
  ELSE cur

\* get_next climbing as get_previous does (line 46 testing parent->right).
get_next_wrong_side(m, node) ==
  IF m.level[m.right[node]] > 0 THEN go_left(m, m.right[node])
  ELSE previous_up(m, node)

get_next(m, node) ==
  IF m.level[m.right[node]] > 0 THEN go_left(m, m.right[node])
  ELSE next_up(m, node)

\* get_previous climbing at once, without the descent into the left subtree
\* (lines 55-57 left out).
get_previous_no_descent(m, node) == previous_up(m, node)

get_previous(m, node) ==
  IF m.level[m.left[node]] > 0 THEN go_right(m, m.left[node])
  ELSE previous_up(m, node)

\* -------------------------------------------------------------- iterators
iterator(m, node, is_end) ==
  [node |-> node, is_end |-> IF m.level[node] = 0 THEN TRUE ELSE is_end]

operator_eq(x, y) == x.node = y.node /\ x.is_end = y.is_end

operator_ne(x, y) == x.node # y.node \/ x.is_end # y.is_end

operator_inc(m, x) ==
  LET next == get_next(m, x.node)
  IN IF m.level[next] = 0 THEN [x EXCEPT !.is_end = TRUE]
     ELSE [x EXCEPT !.node = next]

\* operator-- stepping back also from the end position.
operator_dec_moves(m, x) ==
  [node |-> get_previous(m, x.node), is_end |-> FALSE]

\* operator-- written as the mirror image of operator++: when there is no
\* previous node it sets is_end and keeps the node.
operator_dec_mirrors_inc(m, x) ==
  LET previous == get_previous(m, x.node)
  IN IF x.is_end THEN [x EXCEPT !.is_end = FALSE]
     ELSE IF m.level[previous] = 0 THEN [x EXCEPT !.is_end = TRUE]
     ELSE [x EXCEPT !.node = previous]

operator_dec(m, x) ==
  IF x.is_end THEN [x EXCEPT !.is_end = FALSE]
  ELSE [x EXCEPT !.node = get_previous(m, x.node)]

operator_deref(m, x) == m.value[x.node]

size(m, this) == m.node_count[this]

empty(m, this) == m.node_count[this] = 0

begin(m, this) == iterator(m, go_left(m, m.root[this]), FALSE)

end(m, this) == iterator(m, go_right(m, m.root[this]), TRUE)

RECURSIVE find_loop(_, _, _, _, _)
find_loop(m, this, cur, lst, v) ==
  IF cur # m.bottom[this]
  THEN IF v < m.value[cur] THEN find_loop(m, this, m.left[cur], cur, v)
       ELSE IF m.value[cur] < v THEN find_loop(m, this, m.right[cur], lst, v)
       ELSE cur
  ELSE lst

internal_find(m, this, v) ==
  find_loop(m, this, m.root[this], m.bottom[this], v)

\* lower_bound without the test for the sentinel (lines 205-206 left out).
lower_bound_no_end(m, this, v) ==
  iterator(m, internal_find(m, this, v), FALSE)

lower_bound(m, this, v) ==
  LET result == internal_find(m, this, v)
  IN IF result = m.bottom[this] THEN end(m, this)
     ELSE iterator(m, result, FALSE)

\* find without the test `value < v->value` (line 214).
find_no_compare(m, this, v) ==
  LET n == internal_find(m, this, v)
  IN IF n = m.bottom[this] THEN end(m, this)
     ELSE iterator(m, n, FALSE)

find(m, this, v) ==
  LET n == internal_find(m, this, v)
  IN IF n = m.bottom[this] \/ v < m.value[n] THEN end(m, this)
     ELSE iterator(m, n, FALSE)

\* ------------------------------------------------------ copy / assignment
\* The range-for of lines 157-159 and 165-167: `it` runs over `other` from
\* begin() until it compares equal to the end() taken when the loop starts.
RECURSIVE copy_loop(_, _, _, _)
copy_loop(m, this, x, e) ==
  IF operator_ne(x, e)
  THEN LET m1 == insert(m, this, operator_deref(m, x))
       IN copy_loop(m1, this, operator_inc(m1, x), e)
  ELSE m

copy_construct(m, this, other) ==
  LET m1 == initialize(m, this)
  IN copy_loop(m1, this, begin(m1, other), end(m1, other))

\* operator= without the clear() of line 164.
operator_assign_no_clear(m, this, other) ==
  IF this # other
  THEN copy_loop(m, this, begin(m, other), end(m, other))
  ELSE m

operator_assign(m, this, other) ==
  IF this # other
  THEN LET m1 == clear(m, this)
       IN copy_loop(m1, this, begin(m1, other), end(m1, other))
  ELSE m

\* ----------------------------------------------------------- state machine
NoIt == [set |-> "none", node |-> NULL, is_end |-> FALSE]

\* No node is allocated and no Set object exists.
EmptyMem ==
  [left |-> <<>>, right |-> <<>>, parent |-> <<>>, level |-> <<>>,
   value |-> <<>>,
   node_count |-> [s \in SetIds |-> 0],
   bottom |-> [s \in SetIds |-> NULL],
   root |-> [s \in SetIds |-> NULL],
   to_erase |-> [s \in SetIds |-> Stale],
   last |-> Stale,
   faults |-> {},
   trace |-> <<>>]

\* Set a;
Init ==
  LET m == initialize(EmptyMem, "a")
  IN /\ left = m.left /\ right = m.right /\ parent = m.parent
     /\ level = m.level /\ value = m.value
     /\ node_count = m.node_count /\ bottom = m.bottom /\ root = m.root
     /\ faults = m.faults
     /\ constructed = {"a"}
     /\ it = NoIt
     /\ ref = [s \in SetIds |-> {}]
     /\ op = [name |-> "init", set |-> "a", hit |-> FALSE]

\* op.hit: the argument was stored when the call started.
Insert(s, v) ==
  /\ s \in constructed
  /\ Commit(insert(Mem, s, v))
  /\ ref' = [ref EXCEPT ![s] = @ \cup {v}]
  /\ it' = NoIt
  /\ op' = [name |-> "insert", set |-> s, hit |-> v \in ref[s]]
  /\ UNCHANGED constructed

Erase(s, v) ==
  /\ s \in constructed
  /\ Commit(erase(Mem, s, v))
  /\ ref' = [ref EXCEPT ![s] = @ \ {v}]
  /\ it' = NoIt
  /\ op' = [name |-> "erase", set |-> s, hit |-> v \in ref[s]]
  /\ UNCHANGED constructed

Clear(s) ==
  /\ s \in constructed
  /\ Commit(clear(Mem, s))
  /\ ref' = [ref EXCEPT ![s] = {}]
  /\ it' = NoIt
  /\ op' = [name |-> "clear", set |-> s, hit |-> ref[s] # {}]
  /\ UNCHANGED constructed

\* Set b(a)
CopyConstruct(s, t) ==
  /\ s \notin constructed
  /\ t \in constructed
  /\ Commit(copy_construct(Mem, s, t))
  /\ constructed' = constructed \cup {s}
  /\ ref' = [ref EXCEPT ![s] = ref[t]]
  /\ it' = NoIt
  /\ op' = [name |-> "copy", set |-> s, hit |-> FALSE]

\* s = t
Assign(s, t) ==
  /\ s \in constructed
  /\ t \in constructed
  /\ Commit(operator_assign(Mem, s, t))
  /\ ref' = [ref EXCEPT ![s] = ref[t]]
  /\ it' = NoIt
  /\ op' = [name |-> "assign", set |-> s, hit |-> s = t]
  /\ UNCHANGED constructed

Tag(s, x) == [set |-> s, node |-> x.node, is_end |-> x.is_end]

Untag(x) == [node |-> x.node, is_end |-> x.is_end]

Heap == <<left, right, parent, level, value, node_count, bottom, root>>

Begin(s) ==
  /\ s \in constructed
  /\ it' = Tag(s, begin(Mem, s))
  /\ op' = [name |-> "begin", set |-> s, hit |-> FALSE]
  /\ UNCHANGED <<Heap, constructed, ref, faults>>

End(s) ==
  /\ s \in constructed
  /\ it' = Tag(s, end(Mem, s))
  /\ op' = [name |-> "end", set |-> s, hit |-> FALSE]
  /\ UNCHANGED <<Heap, constructed, ref, faults>>

Find(s, v) ==
  /\ s \in constructed
  /\ it' = Tag(s, find(Mem, s, v))
  /\ op' = [name |-> "find", set |-> s, hit |-> v \in ref[s]]
  /\ UNCHANGED <<Heap, constructed, ref, faults>>

LowerBound(s, v) ==
  /\ s \in constructed
  /\ it' = Tag(s, lower_bound(Mem, s, v))
  /\ op' = [name |-> "lower_bound", set |-> s, hit |-> v \in ref[s]]
  /\ UNCHANGED <<Heap, constructed, ref, faults>>

Inc ==
  /\ it.set \in constructed
  /\ it' = Tag(it.set, operator_inc(Mem, Untag(it)))
  /\ op' = [name |-> "inc", set |-> it.set, hit |-> it.is_end]
  /\ UNCHANGED <<Heap, constructed, ref, faults>>

Dec ==
  /\ it.set \in constructed
  /\ it' = Tag(it.set, operator_dec(Mem, Untag(it)))
  /\ op' = [name |-> "dec", set |-> it.set, hit |-> it.is_end]
  /\ UNCHANGED <<Heap, constructed, ref, faults>>

\* One Set, mutated by insert, erase and clear.
Next ==
  \/ \E v \in Values : Insert("a", v)
  \/ \E v \in Values : Erase("a", v)
  \/ Clear("a")

Spec == Init /\ [][Next]_vars

\* One Set and one iterator over it.
NextIter ==
  \/ \E v \in IterValues : Insert("a", v)
  \/ \E v \in IterValues : Erase("a", v)
  \/ Begin("a")
  \/ End("a")
  \/ \E v \in IterValues : Find("a", v)
  \/ \E v \in IterValues : LowerBound("a", v)
  \/ Inc
  \/ Dec

SpecIter == Init /\ [][NextIter]_vars

\* Two Sets: b is copy-constructed from a, both are assigned and mutated
\* (by calls that add or remove a value; the calls that change nothing are
\* those of Spec).
NextCopy ==
  \/ \E s \in SetIds : \E v \in CopyValues \ ref[s] : Insert(s, v)
  \/ \E s \in SetIds : \E v \in CopyValues \cap ref[s] : Erase(s, v)
  \/ CopyConstruct("b", "a")
  \/ Assign("b", "a")
  \/ Assign("a", "a")

SpecCopy == Init /\ [][NextCopy]_vars

\* ==================================================================
\* Properties
\* ==================================================================
\* More steps than any walk over the allocated nodes needs.
Fuel(m) == Cardinality(DOMAIN m.left) + 1

\* The real nodes reachable from node through left/right links.
RECURSIVE ReachFrom(_, _, _, _)
ReachFrom(m, b, node, fuel) ==
  IF node = b \/ fuel = 0 THEN {}
  ELSE {node} \cup ReachFrom(m, b, m.left[node], fuel - 1)
              \cup ReachFrom(m, b, m.right[node], fuel - 1)

Reach(m, s) == ReachFrom(m, m.bottom[s], m.root[s], Fuel(m))

Subtree(m, s, node) == ReachFrom(m, m.bottom[s], node, Fuel(m))

\* The values met by stepping an iterator from begin() with ++ until it
\* compares equal to end(); NULL is appended if that takes more steps than
\* there are nodes.
RECURSIVE TraverseFrom(_, _, _, _)
TraverseFrom(m, x, e, fuel) ==
  IF operator_eq(x, e) THEN <<>>
  ELSE IF fuel = 0 THEN <<NULL>>
  ELSE <<operator_deref(m, x)>> \o TraverseFrom(m, operator_inc(m, x), e, fuel - 1)

Traverse(m, s) == TraverseFrom(m, begin(m, s), end(m, s), Fuel(m))

Range(seq) == {seq[i] : i \in DOMAIN seq}

LevelOK(m, n) ==
  /\ m.level[m.left[n]] = m.level[n] - 1
  /\ m.level[m.right[n]] \in {m.level[n], m.level[n] - 1}
  /\ (m.level[m.right[n]] = m.level[n]
        => m.level[m.right[m.right[n]]] < m.level[n])

\* C1: after every insert and erase call on an initially empty Set, every
\* real node reachable from root has a left child exactly one level below
\* it, a right child on its level or one below, and never two right
\* children in a row on its own level; a node with two sentinel children
\* has level 1.
C1_LevelInvariant ==
  \A n \in Reach(Mem, "a") :
    /\ LevelOK(Mem, n)
    /\ (left[n] = bottom["a"] /\ right[n] = bottom["a"] => level[n] = 1)

\* An erase that removed a node has left a tree whose root has level 2 and
\* in which some node has its right child on its own level.
C1_Witness ==
  /\ op.name = "erase" /\ op.hit
  /\ level[root["a"]] = 2
  /\ \E n \in Reach(Mem, "a") : level[right[n]] = level[n]

\* C2: after every call the values met from begin() to end() are exactly
\* the members of the reference set, each met once.
C2_TraversalIsReference ==
  LET t == Traverse(Mem, "a")
  IN /\ Range(t) = ref["a"]
     /\ Len(t) = Cardinality(ref["a"])

\* An erase has removed a value lying between two values that stay.
C2_Witness ==
  /\ op.name = "erase" /\ op.hit
  /\ \E x \in ref["a"], y \in ref["a"] :
       \E z \in Values \ ref["a"] : x < z /\ z < y

\* C3: the traversal from begin() to end() is strictly increasing, and
\* every real node is larger than all values of its left subtree and smaller
\* than all values of its right subtree.
C3_Ordered ==
  LET t == Traverse(Mem, "a")
  IN /\ \A i \in 1..(Len(t) - 1) : t[i] < t[i + 1]
     /\ \A n \in Reach(Mem, "a") :
          /\ \A l \in Subtree(Mem, "a", left[n]) : value[l] < value[n]
          /\ \A r \in Subtree(Mem, "a", right[n]) : value[n] < value[r]

\* An erase has removed a node with two children (the node kept its place
\* and took over the value of its successor): the root still has both
\* children.
C3_Witness ==
  /\ op.name = "erase" /\ op.hit
  /\ node_count["a"] >= 3
  /\ left[root["a"]] # bottom["a"]
  /\ right[root["a"]] # bottom["a"]

NodeDelta == Cardinality(DOMAIN value') - Cardinality(DOMAIN value)

\* C4: size() is the number of stored values and the number of real nodes
\* reachable from root.  insert changes it by +1 when it allocates a node
\* and not at all otherwise; erase changes it by -1 when it frees a node and
\* not at all otherwise; it never grows in another call, and whenever it
\* shrinks it shrinks by the number of nodes freed.  empty() is size() = 0.
C4_SizeCounts ==
  [][ LET m == Mem'
      IN /\ size(m, "a") = Cardinality(ref'["a"])
         /\ size(m, "a") = Cardinality(Reach(m, "a"))
         /\ Reach(m, "a") = DOMAIN value'
         /\ empty(m, "a") <=> size(m, "a") = 0
         /\ node_count'["a"] - node_count["a"] = NodeDelta
         /\ op'.name = "insert" => NodeDelta = IF op'.hit THEN 0 ELSE 1
         /\ op'.name = "erase" => NodeDelta = IF op'.hit THEN -1 ELSE 0
         /\ NodeDelta > 0 => op'.name = "insert"
         /\ NodeDelta < 0 => op'.name \in {"erase", "clear"} ]_vars

C4_Witness ==
  /\ op.name = "erase" /\ op.hit
  /\ node_count["a"] = 2

\* C5: insert of a stored value and erase of a value that is not stored
\* change nothing: the fields of all nodes, the set of allocated nodes, the
\* root, the count and the stored values are as before the call.
C5_NoOpCalls ==
  [][ (\/ op'.name = "insert" /\ op'.hit
       \/ op'.name = "erase" /\ ~op'.hit)
      => /\ Heap' = Heap
         /\ Traverse(Mem', "a") = Traverse(Mem, "a") ]_vars

C5_Witness ==
  /\ op.name = "erase" /\ ~op.hit
  /\ node_count["a"] >= 3
  /\ level[root["a"]] = 2

ProbeValues == 0..(MaxValIter + 1)

SetMax(S) == CHOOSE x \in S : \A y \in S : y <= x

SetMin(S) == CHOOSE x \in S : \A y \in S : x <= y

\* C6: for every value v, find(v) differs from end() exactly when v is
\* stored, and then it is positioned (is_end false) on the reachable node
\* whose value is v.
C6_FindMembership ==
  \A v \in ProbeValues :
    LET x == find(Mem, "a", v)
        found == operator_ne(x, end(Mem, "a"))
    IN /\ found <=> v \in ref["a"]
       /\ found => /\ ~x.is_end
                   /\ x.node \in Reach(Mem, "a")
                   /\ value[x.node] = v

\* find has just returned the position of a stored value that is not at the
\* root.
C6_Witness ==
  /\ op.name = "find" /\ op.hit
  /\ node_count["a"] >= 3
  /\ ~it.is_end
  /\ it.node # root["a"]

\* C7: for every value v, lower_bound(v) equals end() exactly when every
\* stored value is less than v, and otherwise it is positioned on the node
\* holding the smallest stored value that is not less than v.
C7_LowerBound ==
  \A v \in ProbeValues :
    LET x == lower_bound(Mem, "a", v)
        S == {w \in ref["a"] : ~(w < v)}
    IN /\ operator_eq(x, end(Mem, "a")) <=> S = {}
       /\ S # {} => /\ ~x.is_end
                    /\ x.node \in Reach(Mem, "a")
                    /\ value[x.node] = SetMin(S)

\* lower_bound of a value that is not stored has returned the position of a
\* larger stored value, with smaller values stored too.
C7_Witness ==
  /\ op.name = "lower_bound" /\ ~op.hit
  /\ ~it.is_end
  /\ \E w \in ref["a"] : w < value[it.node]

\* C8: on a non-empty Set, ++ on the position of the maximum sets is_end,
\* keeps the node and gives end(); -- on end() clears is_end, keeps the node
\* and gives the position of the maximum; ++ from any other stored element
\* and -- from any stored element but the minimum leave is_end false and
\* arrive on a stored element.
C8_BoundaryToggle ==
  [][ LET m == Mem
          e == Tag("a", end(m, "a"))
          onElement == ~it.is_end /\ it.node \in Reach(m, "a")
      IN (it.set = "a" /\ node_count["a"] > 0) =>
         /\ (op'.name = "inc" /\ onElement) =>
              IF value[it.node] = SetMax(ref["a"])
              THEN it' = [it EXCEPT !.is_end = TRUE] /\ it' = e
              ELSE ~it'.is_end /\ it'.node \in Reach(m, "a")
         /\ (op'.name = "dec" /\ it = e) =>
              /\ it' = [it EXCEPT !.is_end = FALSE]
              /\ value[it'.node] = SetMax(ref["a"])
         /\ (op'.name = "dec" /\ onElement
               /\ value[it.node] # SetMin(ref["a"])) =>
              ~it'.is_end /\ it'.node \in Reach(m, "a") ]_vars

\* -- has just been applied to end() of a Set of at least three values.
C8_Witness ==
  /\ op.name = "dec" /\ op.hit
  /\ node_count["a"] >= 3
  /\ ~it.is_end
  /\ value[it.node] = SetMax(ref["a"])

\* C9: whenever the Set is empty (fresh, emptied by erase, or cleared) its
\* memory is that of a freshly constructed Set: the sentinel allocated by
\* the constructor with its fields as initialize set them, no other node,
\* root = sentinel, size() = 0; begin() = end(), and find and lower_bound
\* return end() for every value.
C9_EmptySet ==
  ref["a"] = {} =>
    LET m == Mem
        fresh == initialize(EmptyMem, "a")
        e == end(m, "a")
    IN /\ size(m, "a") = 0 /\ empty(m, "a")
       /\ root["a"] = bottom["a"]
       /\ bottom["a"] = fresh.bottom["a"]
       /\ m = fresh
       /\ operator_eq(begin(m, "a"), e)
       /\ \A v \in 0..(MaxVal + 1) :
            /\ operator_eq(find(m, "a", v), e)
            /\ operator_eq(lower_bound(m, "a", v), e)

\* clear() has just emptied a Set that held values.
C9_Witness ==
  /\ op.name = "clear" /\ op.hit
  /\ ref["a"] = {}

Other(s) == IF s = "a" THEN "b" ELSE "a"

\* The nodes of a Set: its sentinel and the real nodes reachable from root.
Nodes(m, s) == Reach(m, s) \cup {m.bottom[s]}

\* The node graph of Set s (its members, its nodes and their fields) is in
\* memory n what it is in memory m.
SameGraph(m, n, s) ==
  /\ n.root[s] = m.root[s]
  /\ n.bottom[s] = m.bottom[s]
  /\ n.node_count[s] = m.node_count[s]
  /\ \A x \in Nodes(m, s) :
       /\ x \in DOMAIN n.left
       /\ n.left[x] = m.left[x]
       /\ n.right[x] = m.right[x]
       /\ n.parent[x] = m.parent[x]
       /\ n.level[x] = m.level[x]
       /\ x # m.bottom[s] => x \in DOMAIN n.value /\ n.value[x] = m.value[x]

\* C10: after Set b(a) and after s = t, the target yields the value
\* sequence the source yielded and has its size, and the source's node graph
\* is as before (for s = s nothing changes); two Sets never share a node or
\* a sentinel; insert and erase on one Set leave what the other yields and
\* its size unchanged.
C10_CopyIndependent ==
  [][ LET m == Mem
          n == Mem'
          s == op'.set
          o == Other(op'.set)
          t == IF op'.hit THEN s ELSE o
      IN /\ op'.name \in {"copy", "assign"} =>
              /\ Traverse(n, s) = Traverse(m, t)
              /\ size(n, s) = size(m, t)
              /\ SameGraph(m, n, t)
              /\ (op'.hit => Heap' = Heap)
         /\ o \in constructed' => Nodes(n, s) \cap Nodes(n, o) = {}
         /\ (op'.name \in {"insert", "erase"} /\ o \in constructed) =>
              /\ Traverse(n, o) = Traverse(m, o)
              /\ size(n, o) = size(m, o) ]_vars

\* b = a has just been executed with two values stored in a, and b yields
\* them.
C10_Witness ==
  /\ op.name = "assign" /\ ~op.hit /\ op.set = "b"
  /\ node_count["b"] = 2
  /\ Traverse(Mem, "b") = Traverse(Mem, "a")

\* C11: after every insert, erase and clear call, every real node reachable
\* from root is the parent of its left child and of its right child when
\* that child is a real node, and the parent of root is the sentinel.
C11_ParentLinks ==
  /\ \A n \in Reach(Mem, "a") :
       /\ left[n] # bottom["a"] => parent[left[n]] = n
       /\ right[n] # bottom["a"] => parent[right[n]] = n
  /\ parent[root["a"]] = bottom["a"]

\* An insert has added a third node and ended with a rotation at the root:
\* the root has level 2 and both children.
C11_Witness ==
  /\ op.name = "insert" /\ ~op.hit
  /\ node_count["a"] = 3
  /\ level[root["a"]] = 2
  /\ left[root["a"]] # bottom["a"]
  /\ right[root["a"]] # bottom["a"]

\* C12: in every state reached by insert, erase and clear calls the
\* sentinel has level 0 and its left, right and parent links point to
\* itself, every real node has level at least 1, and no store made inside a
\* call (in a rotation, a level decrement, a link of a returned subtree or
\* erase's reset of the root's parent) has written another value to one of
\* the four fields of the sentinel or a level below 1 to a real node.
C12_SentinelFixed ==
  LET b == bottom["a"]
  IN /\ level[b] = 0
     /\ left[b] = b /\ right[b] = b /\ parent[b] = b
     /\ \A n \in DOMAIN value : level[n] >= 1
     /\ "sentinel" \notin faults
     /\ "level" \notin faults

\* An erase has taken a node out of a tree of three nodes: the level of the
\* root was lowered from 2 to 1.
C12_Witness ==
  /\ op.name = "erase" /\ op.hit
  /\ node_count["a"] = 2
  /\ level[root["a"]] = 1
  /\ faults = {}

\* The entries of a trace noted at the given point.
NotedAt(t, point) == SelectSeq(t, LAMBDA e : e.at = point)

\* C13: in every state and for every value v, the call erase(v) removes a
\* node exactly when v is stored, and then it removes one node, `last`,
\* once: the child of last that does not replace it is the sentinel
\* (last.left when last is not to_erase and last.right replaces it,
\* last.right when last is to_erase and last.left replaces it); to_erase is
\* a node of the tree whose value is equivalent to v and, when it stays, it
\* holds last's value afterwards; last is the only node freed and the only
\* real node that is no longer reachable from root.
C13_RemovalSplices ==
  \A v \in 0..(MaxVal + 1) :
    LET m == Mem
        n == erase(m, "a", v)
        b == bottom["a"]
        removals == NotedAt(n.trace, "remove")
    IN IF v \in ref["a"]
       THEN /\ Len(removals) = 1
            /\ LET t == removals[1]
               IN /\ t.last \in Reach(m, "a")
                  /\ t.to_erase \in Reach(m, "a")
                  /\ ~(value[t.to_erase] < v)
                  /\ ~(v < value[t.to_erase])
                  /\ t.spare = b
                  /\ IF t.last = t.to_erase
                     THEN t.node = left[t.last] /\ right[t.last] = b
                     ELSE t.node = right[t.last] /\ left[t.last] = b
                  /\ t.to_erase # t.last =>
                       n.value[t.to_erase] = value[t.last]
                  /\ DOMAIN n.value = DOMAIN value \ {t.last}
                  /\ Reach(n, "a") = Reach(m, "a") \ {t.last}
       ELSE /\ removals = <<>>
            /\ DOMAIN n.value = DOMAIN value

\* An erase has left a tree from which a further erase removes a node last
\* that is not to_erase and has a real right child, which takes its place.
C13_Witness ==
  /\ op.name = "erase" /\ op.hit
  /\ \E v \in ref["a"] :
       LET n == erase(Mem, "a", v)
       IN \E i \in DOMAIN n.trace :
            /\ n.trace[i].at = "remove"
            /\ n.trace[i].last # n.trace[i].to_erase
            /\ n.trace[i].node \in Reach(n, "a")

\* The iterators that begin(), end(), find() and lower_bound() return.
Obtained(m, s) ==
  {begin(m, s), end(m, s)}
    \cup {find(m, s, v) : v \in ProbeValues}
    \cup {lower_bound(m, s, v) : v \in ProbeValues}

\* x after k applications of --.
RECURSIVE DecTimes(_, _, _)
DecTimes(m, x, k) ==
  IF k = 0 THEN x ELSE DecTimes(m, operator_dec(m, x), k - 1)

\* C14: on a non-empty Set, for every iterator x that begin(), end(),
\* find() or lower_bound() returns: if x differs from end() then ++ followed
\* by -- gives an iterator equal to x, and if x differs from begin() then --
\* followed by ++ gives an iterator equal to x; the walk from end() with --
\* meets the stored values in strictly decreasing order, all of them, and
\* is at an iterator equal to begin() after size() steps and not before.
C14_RoundTrip ==
  node_count["a"] > 0 =>
    LET m == Mem
        b == begin(m, "a")
        e == end(m, "a")
        n == size(m, "a")
        met == [k \in 1..n |-> operator_deref(m, DecTimes(m, e, k))]
    IN /\ \A x \in Obtained(m, "a") :
            /\ operator_ne(x, e) =>
                 operator_eq(operator_dec(m, operator_inc(m, x)), x)
            /\ operator_ne(x, b) =>
                 operator_eq(operator_inc(m, operator_dec(m, x)), x)
       /\ \A k \in 1..(n - 1) : met[k + 1] < met[k]
       /\ Range(met) = ref["a"]
       /\ operator_eq(DecTimes(m, e, n), b)
       /\ \A k \in 0..(n - 1) : operator_ne(DecTimes(m, e, k), b)

\* -- has just stepped from the second smallest of at least three stored
\* values to the position of begin().
C14_Witness ==
  /\ op.name = "dec" /\ ~op.hit
  /\ node_count["a"] >= 3
  /\ it.set = "a"
  /\ operator_eq(Untag(it), begin(Mem, "a"))

\* C15 as stated: -- applied to begin() of a non-empty Set gives an
\* iterator whose node is still the leftmost real node and whose is_end is
\* true, and ++ applied to that iterator gives an iterator equal to begin().
C15_AsStated ==
  node_count["a"] > 0 =>
    LET m == Mem
        b == begin(m, "a")
        x == operator_dec(m, b)
    IN /\ x.node = b.node
       /\ x.is_end
       /\ operator_eq(operator_inc(m, x), b)

\* C15, amended: -- applied to begin() of a non-empty Set gives an iterator
\* whose node is the sentinel and whose is_end is false; ++ applied to that
\* iterator keeps the sentinel as node and sets is_end, which gives an
\* iterator equal to neither begin() nor end().
C15_BeforeBeginIsSentinel ==
  node_count["a"] > 0 =>
    LET m == Mem
        b == begin(m, "a")
        x == operator_dec(m, b)
        y == operator_inc(m, x)
    IN /\ x.node = bottom["a"]
       /\ ~x.is_end
       /\ y.node = bottom["a"]
       /\ y.is_end
       /\ operator_ne(y, b)
       /\ operator_ne(y, end(m, "a"))

\* -- has been applied to begin() of a Set of at least two values and ++
\* to its result: the iterator is on the sentinel with is_end set.
C15_Witness ==
  /\ op.name = "inc" /\ ~op.hit
  /\ node_count["a"] >= 2
  /\ it.set = "a"
  /\ it.node = bottom["a"]
  /\ it.is_end

\* C16: across insert, erase and clear calls no store goes to a freed node
\* and no node is deleted twice (a read of a freed node has no value in
\* this model and would stop the evaluation of the call); once a call has
\* returned, root, the sentinel and every left, right and parent link of a
\* node reachable from root lead to nodes that are allocated and reachable
\* themselves; and every allocated node is the sentinel or reachable from
\* root, so a node that insert allocated and that is no longer reachable
\* has been freed, once.
C16_NoUseAfterFree ==
  LET m == Mem
      live == Nodes(m, "a")
  IN /\ "freed" \notin faults
     /\ "delete" \notin faults
     /\ root["a"] \in DOMAIN left
     /\ bottom["a"] \in DOMAIN left
     /\ \A n \in live :
          /\ n \in DOMAIN left
          /\ left[n] \in live
          /\ right[n] \in live
          /\ parent[n] \in live
     /\ DOMAIN left = live
     /\ DOMAIN value = Reach(m, "a")

\* An erase has freed a node of a tree with a root of level 2, and the
\* storage of the freed node has not been taken again: its address lies
\* below that of a node of the tree.
C16_Witness ==
  /\ op.name = "erase" /\ op.hit
  /\ faults = {}
  /\ level[root["a"]] = 2
  /\ \E k \in DOMAIN value : \E f \in 0..k : f \notin DOMAIN left

\* The number of nodes on the path from cur down to the real node n of its
\* subtree.
RECURSIVE PathNodes(_, _, _, _)
PathNodes(m, s, cur, n) ==
  IF cur = n THEN 1
  ELSE IF n \in Subtree(m, s, m.left[cur])
  THEN 1 + PathNodes(m, s, m.left[cur], n)
  ELSE 1 + PathNodes(m, s, m.right[cur], n)

\* The real nodes that the loop of internal_find (lines 328-338) visits from
\* cur on; the frames of internal_insert (lines 343-356) take the same path.
RECURSIVE FindVisits(_, _, _, _)
FindVisits(m, this, cur, v) ==
  IF cur = m.bottom[this] THEN 0
  ELSE IF v < m.value[cur] THEN 1 + FindVisits(m, this, m.left[cur], v)
  ELSE IF m.value[cur] < v THEN 1 + FindVisits(m, this, m.right[cur], v)
  ELSE 1

\* The real nodes that the frames of internal_erase (lines 371-387) visit
\* from node on.
RECURSIVE EraseVisits(_, _, _, _)
EraseVisits(m, this, node, v) ==
  IF node = m.bottom[this] THEN 0
  ELSE IF v < m.value[node] THEN 1 + EraseVisits(m, this, m.left[node], v)
  ELSE 1 + EraseVisits(m, this, m.right[node], v)

\* C17: after every call the path from root to any real node has at most
\* 2 * root.level nodes and size() >= 2^(root.level) - 1; the descents of
\* find, lower_bound and insert and that of erase visit, for every value,
\* at most 2 * root.level real nodes, which is at most 2 * log2(size() + 1)
\* (stated without the logarithm: 2^visits <= (size() + 1)^2).
C17_LogarithmicDepth ==
  LET m == Mem
      r == root["a"]
      L == level[r]
      n == size(m, "a")
  IN /\ \A x \in Reach(m, "a") : PathNodes(m, "a", r, x) <= 2 * L
     /\ n >= 2 ^ L - 1
     /\ \A v \in 0..(MaxVal + 1) :
          /\ FindVisits(m, "a", r, v) <= 2 * L
          /\ EraseVisits(m, "a", r, v) <= 2 * L
          /\ 2 ^ FindVisits(m, "a", r, v) <= (n + 1) * (n + 1)
          /\ 2 ^ EraseVisits(m, "a", r, v) <= (n + 1) * (n + 1)

\* An erase has left a tree whose root has level 2 and in which a path from
\* root has three nodes.
C17_Witness ==
  /\ op.name = "erase" /\ op.hit
  /\ level[root["a"]] = 2
  /\ \E x \in Reach(Mem, "a") : PathNodes(Mem, "a", root["a"], x) = 3

====
